---- MODULE Spec2Model ----
(***************************************************************************)
(* Model of validator/validator_spawner.go: the one-shot future (valRun /  *)
(* readyMarker), the two spawners (ArbitratorSpawner, JitSpawner) with     *)
(* their lifecycle and in-flight counter, the execution loop, the preimage *)
(* resolver, WriteToFile and the construction of the challenge backend.    *)
(*                                                                         *)
(* The execution machine and the machine loaders are opaque collaborators: *)
(* a mock (a script fixed with each input of the workload) decides what    *)
(* every machine call answers.                                             *)
(***************************************************************************)
EXTENDS Integers, Sequences, FiniteSets, TLC

VARIABLES
    kind,       \* which backend the spawner is: "arbitrator" or "jit"
    started,    \* StopWaiter: Start has been called
    stopped,    \* StopWaiter: the lifecycle context is cancelled
    cfgRuns,    \* config().ConcurrentRuns, hot-reloadable
    count,      \* the spawner's in-flight counter (atomic int32)
    runs,       \* one record per Launch: the valRun and its background task
    workload,   \* the inputs the orchestrator submits, each with its mock
    obs,        \* the observers: callers of Result() and WaitReady()
    backend,    \* the latest CreateExecutionBackend call and its clone
    swStarts,   \* StopWaiter: how many times its Start has been called
    loaderStopped, \* the machine loader's Stop has been called
    base,       \* the calls made on the loader's cached base machines
    export,     \* the latest WriteToFile call: its input, writes and result
    lookup      \* the latest call of a run's preimage resolver

\* The variables of the model in groups: the spawner's lifecycle, and the
\* synchronous helpers.
life == <<swStarts, loaderStopped>>
helpers == <<export, lookup>>

vars == <<kind, started, stopped, cfgRuns, count, runs, workload, obs, backend,
          life, base, helpers>>

------------------------------------------------------------------------------
(* Bounds *)

MaxRuns == 2        \* Launch calls in the capacity specification
ExecRuns == 1       \* Launch calls in the execution and future specifications
MaxBatch == 2       \* batch messages of an input
MaxSteps == 2       \* Step calls a mock machine accepts
NumObservers == 2   \* concurrent callers of Result / WaitReady
MaxStarts == 2      \* Start calls in the lifecycle specification
NumHashes == 3      \* hashes the machine may ask the resolver for
MaxPreimages == 2   \* preimages of an input that is written to files

------------------------------------------------------------------------------
(* Values *)

NumCPU == 2         \* runtime.NumCPU() of the host

ZeroState == "G0"                  \* GoGlobalState{}
FinalStates == {"G1", "G2"}        \* checkpoints a machine can end in

NoErr == "nil"
ErrNotReady == "not ready"
ErrLoad == "unabled to get WASM machine"
ErrResolver == "SetPreimageResolver failed"
ErrSetState == "error while setting global state for proving"
ErrSeqMsg == "error while trying to add sequencer msg for proving"
ErrDelayedMsg == "error while trying to add delayed msg for proving"
ErrStep == "machine execution failed with error"
ErrStepCanceled == "machine execution failed with error: context canceled"
ErrFaulted == "machine entered errored state during attempted validation"
ErrProve == "jit prove failed"
ErrCanceled == "context canceled"
ErrPreimage == "preimage not found"
ErrIO == "i/o error"

Kinds == {"arbitrator", "jit"}
ConfigValues == {0, 1}             \* values of ConcurrentRuns tried

------------------------------------------------------------------------------
(* Inputs: ValidationInput and the mock machine behind its module root *)

\* entry.BatchInfo with n messages: batch numbers 5, 6, ...
BatchInfoOf(n) == [k \in 1..n |-> 4 + k]

Entries ==
    [BatchInfo : {BatchInfoOf(n) : n \in 0..MaxBatch},
     HasDelayedMsg : BOOLEAN,
     DelayedMsgNr : {0, 7}]

\* Number of machine calls loadEntryToMachine makes when none fails.
FeedCalls(entry) ==
    2 + Len(entry.BatchInfo) + (IF entry.HasDelayedMsg THEN 1 ELSE 0)

\* A mock: whether the loader finds the machine, which feed call fails
\* (0: none), after how many Step calls the machine ends, how it ends, and
\* the checkpoint it ends in.
MockOf(load, failAt, len, end, gs) ==
    [load |-> load, failAt |-> failAt, len |-> len, end |-> end, gs |-> gs]

MocksFor(entry) ==
    {MockOf(FALSE, 0, 0, "halt", "G1")}
    \cup {MockOf(TRUE, f, 0, "halt", "G1") : f \in 1..FeedCalls(entry)}
    \cup {MockOf(TRUE, 0, n, "halt", g) : n \in 0..MaxSteps, g \in FinalStates}
    \cup {MockOf(TRUE, 0, n, "fault", "G1") : n \in 0..MaxSteps}
    \cup {MockOf(TRUE, 0, n, "steperr", "G1") : n \in 1..MaxSteps}

ItemOf(entry, root, mock) == [entry |-> entry, root |-> root, mock |-> mock]

AllItems == UNION {{ItemOf(e, "rootA", m) : m \in MocksFor(e)} : e \in Entries}

\* The inputs of the specifications about concurrency: one entry, a mock
\* that succeeds after one Step and one mock per error path of execute.
LightEntry ==
    [BatchInfo |-> BatchInfoOf(1), HasDelayedMsg |-> FALSE, DelayedMsgNr |-> 0]

SuccessItem == ItemOf(LightEntry, "rootA", MockOf(TRUE, 0, 1, "halt", "G2"))

ErrorMocks ==
    {MockOf(FALSE, 0, 0, "halt", "G1"),
     MockOf(TRUE, 2, 0, "halt", "G1"),
     MockOf(TRUE, 0, 0, "fault", "G1"),
     MockOf(TRUE, 0, 1, "steperr", "G1")}

ErrorItems == {ItemOf(LightEntry, "rootB", m) : m \in ErrorMocks}

\* Workloads that mix the successful input with one failing input.
MixedWorkloads == {{SuccessItem, x} : x \in ErrorItems}

\* The inputs of the specification of the future: a run that succeeds after
\* one Step, one whose machine faults, one whose Step fails.
FutureMocks ==
    {MockOf(TRUE, 0, 1, "halt", "G2"),
     MockOf(TRUE, 0, 0, "fault", "G1"),
     MockOf(TRUE, 0, 1, "steperr", "G1")}

FutureItems == {ItemOf(LightEntry, "rootA", m) : m \in FutureMocks}

------------------------------------------------------------------------------
(* The machine handle: the calls made on it, and what the mock answers *)

NoMach == [made |-> FALSE, log |-> <<>>, status |-> "none", steps |-> 0]

OpOf(op, arg) == [op |-> op, arg |-> arg]

\* A call on a machine is recorded in the handle's log.
Call(m, op, arg) == [m EXCEPT !.log = Append(@, OpOf(op, arg))]

\* basemachine.Clone(): a fresh mutable handle, nothing called on it yet.
Clone(mock) ==
    [made |-> TRUE, log |-> <<>>, status |-> "loaded", steps |-> 0]

\* What the machine reports once the input is fed.
StatusAfter(mock, steps) ==
    IF steps < mock.len THEN "running"
    ELSE IF mock.end = "fault" THEN "errored"
    ELSE "halted"

IsRunning(m) == m.status = "running"
IsErrored(m) == m.status = "errored"

\* mach.Step(ctx, count): fails when the context is cancelled or when the
\* mock says this call fails; otherwise the machine advances.
StepFails(m, mock, cancelled) ==
    cancelled \/ (mock.end = "steperr" /\ m.steps + 1 = mock.len)

StepMachine(m, mock) ==
    [Call(m, "Step", 0) EXCEPT !.steps = m.steps + 1,
                               !.status = StatusAfter(mock, m.steps + 1)]

DestroyMutantLeak(m) == m

\* defer mach.Destroy()
Destroy(m) == Call(m, "Destroy", 0)

Freeze(m) == [Call(m, "Freeze", 0) EXCEPT !.status = "frozen"]

------------------------------------------------------------------------------
(* loadEntryToMachine *)

RECURSIVE AddSequencerInboxMessages(_, _, _, _)
\* The loop over entry.BatchInfo: message k is feed call 2 + k.
AddSequencerInboxMessages(batches, k, failAt, m) ==
    IF k > Len(batches)
    THEN [mach |-> m, err |-> NoErr]
    ELSE LET m1 == Call(m, "AddSequencerInboxMessage", batches[k])
         IN  IF failAt = 2 + k
             THEN [mach |-> m1, err |-> ErrSeqMsg]
             ELSE AddSequencerInboxMessages(batches, k + 1, failAt, m1)

HasDelayedMutantByNr(entry) == entry.DelayedMsgNr # 0

\* if entry.HasDelayedMsg
HasDelayed(entry) == entry.HasDelayedMsg

loadEntryToMachine(entry, mock, mach) ==
    LET m1 == Call(mach, "SetPreimageResolver", 0)
    IN  IF mock.failAt = 1 THEN [mach |-> m1, err |-> ErrResolver]
        ELSE
        LET m2 == Call(m1, "SetGlobalState", 0)
        IN  IF mock.failAt = 2 THEN [mach |-> m2, err |-> ErrSetState]
            ELSE
            LET fed == AddSequencerInboxMessages(entry.BatchInfo, 1,
                                                 mock.failAt, m2)
            IN  IF fed.err # NoErr THEN fed
                ELSE IF HasDelayed(entry)
                THEN LET m3 == Call(fed.mach, "AddDelayedInboxMessage",
                                    entry.DelayedMsgNr)
                     IN  IF mock.failAt = 3 + Len(entry.BatchInfo)
                         THEN [mach |-> m3, err |-> ErrDelayedMsg]
                         ELSE [mach |-> m3, err |-> NoErr]
                ELSE [mach |-> fed.mach, err |-> NoErr]

------------------------------------------------------------------------------
(* valRun: the future and the background task that resolves it *)

\* NewvalRun(moduleRoot): a Pending future; no task runs for it yet.
NewvalRun(item) ==
    [item |-> item, root |-> item.root,
     result |-> ZeroState, err |-> NoErr,
     boolReady |-> 0, chanReady |-> "open",
     pc |-> "none", k |-> 0, mach |-> NoMach,
     ret |-> <<ZeroState, NoErr>>, signals |-> 0]

\* v.LaunchThread(func) of the StopWaiter, and "go func()" of the JIT
\* spawner: the closure starts as a background task.
LaunchThread(r) == [r EXCEPT !.pc = "start"]

ReturnMutantErrDropped(r, m, res, err) ==
    IF err # NoErr
    THEN [r EXCEPT !.mach = m, !.ret = <<res, err>>, !.pc = "defer", !.k = 0]
    ELSE [r EXCEPT !.mach = m, !.ret = <<res, err>>, !.pc = "consume", !.k = 1]

\* execute returns (res, err): its deferred calls have run, and the pair is
\* handed to consumeResult.
Return(r, m, res, err) ==
    [r EXCEPT !.mach = m, !.ret = <<res, err>>, !.pc = "consume", !.k = 1]

executeLoadMutantIgnoreErr(r, loadOk) ==
    IF ~loadOk
    THEN Return(r, NoMach, ZeroState, ErrLoad)
    ELSE LET fed == loadEntryToMachine(r.item.entry, r.item.mock,
                                       Clone(r.item.mock))
         IN  [r EXCEPT !.pc = "loop",
                       !.mach = [fed.mach EXCEPT
                           !.status = StatusAfter(r.item.mock, 0)]]

\* ArbitratorSpawner.execute up to the step loop.
executeLoad(r, loadOk) ==
    IF ~loadOk
    THEN Return(r, NoMach, ZeroState, ErrLoad)
    ELSE LET fed == loadEntryToMachine(r.item.entry, r.item.mock,
                                       Clone(r.item.mock))
         IN  IF fed.err # NoErr
             THEN Return(r, Destroy(fed.mach), ZeroState, fed.err)
             ELSE [r EXCEPT !.pc = "loop",
                            !.mach = [fed.mach EXCEPT
                                !.status = StatusAfter(r.item.mock, 0)]]

executeStepMutantIgnoreErr(r, cancelled) ==
    [r EXCEPT !.mach = StepMachine(Call(r.mach, "IsRunning", 0), r.item.mock)]

\* One iteration of "for mach.IsRunning()" whose test is true.
executeStep(r, cancelled) ==
    LET m1 == Call(r.mach, "IsRunning", 0)
    IN  IF StepFails(m1, r.item.mock, cancelled)
        THEN Return(r, Destroy(Call(m1, "Step", 0)), ZeroState,
                    IF cancelled THEN ErrStepCanceled ELSE ErrStep)
        ELSE [r EXCEPT !.mach = StepMachine(m1, r.item.mock)]

\* The loop test is false: IsErrored, GetGlobalState, return.
executeFinish(r) ==
    LET m2 == Call(Call(r.mach, "IsRunning", 0), "IsErrored", 0)
    IN  IF IsErrored(r.mach)
        THEN Return(r, Destroy(m2), ZeroState, ErrFaulted)
        ELSE Return(r, Destroy(Call(m2, "GetGlobalState", 0)),
                    r.item.mock.gs, NoErr)

\* machine.prove(ctx, entry, resolver) of the JIT machine: its pair is
\* returned as it is.
Prove(mock, cancelled) ==
    IF cancelled THEN <<ZeroState, ErrCanceled>>
    ELSE IF mock.failAt # 0 THEN <<ZeroState, ErrProve>>
    ELSE IF mock.end = "halt" THEN <<mock.gs, NoErr>>
    ELSE IF mock.end = "fault" THEN <<ZeroState, ErrProve>>
    ELSE <<mock.gs, ErrProve>>

\* JitSpawner.execute
jitExecute(r, loadOk, cancelled) ==
    IF ~loadOk
    THEN Return(r, NoMach, ZeroState, ErrLoad)
    ELSE LET p == Prove(r.item.mock, cancelled)
         IN  Return(r, NoMach, p[1], p[2])

signalReadyMutantNoClose == <<"err", "boolReady">>

signalReadyMutantFlagFirst == <<"boolReady", "err", "close">>

\* signalReady: d.err = err; atomic store of boolReady; close(chanReady)
signalReady == <<"err", "boolReady", "close">>

consumeResultMutantResultLast == signalReady \o <<"result">>

\* consumeResult: r.result = res; r.signalReady(err)
consumeResult == <<"result">> \o signalReady

\* One statement of consumeResult / signalReady on the run.
Statement(op, r) ==
    CASE op = "result" -> [r EXCEPT !.result = r.ret[1]]
      [] op = "err" -> [r EXCEPT !.err = r.ret[2]]
      [] op = "boolReady" -> [r EXCEPT !.boolReady = 1,
                                       !.signals = r.signals + 1]
      [] op = "close" -> [r EXCEPT !.chanReady = "closed"]

\* valRun.Ready()
Ready(r) == r.boolReady # 0

\* valRun.Result() once Ready() has been seen true
ResultPair(r) == <<r.result, r.err>>

WaitReadyCasesMutantNoWait(r, ctx) ==
    (IF r.chanReady = "closed" THEN {r.err} ELSE {}) \cup {ErrCanceled}

WaitReadyCasesMutantStoredErr(r, ctx) ==
    IF r.chanReady = "closed" \/ ctx = "cancelled" THEN {r.err} ELSE {}

\* The cases of WaitReady's select that can fire, each with its value.
WaitReadyCases(r, ctx) ==
    (IF r.chanReady = "closed" THEN {r.err} ELSE {})
    \cup (IF ctx = "cancelled" THEN {ErrCanceled} ELSE {})

------------------------------------------------------------------------------
(* The spawner *)

\* Room(): config().ConcurrentRuns, or the CPU count when it is 0, minus
\* the in-flight counter.
Room ==
    LET avail == IF cfgRuns = 0 THEN NumCPU ELSE cfgRuns
    IN  avail - count

\* StopWaiter.Start(ctx, parent): a lifecycle context is derived from ctx;
\* the n-th call obtains the n-th context.
StopWaiterStart(n) == n + 1

\* Start(ctx_in): the arbitrator spawner tests Started() first, the jit
\* spawner calls StopWaiter.Start every time.
Start ==
    /\ IF kind = "arbitrator" /\ started
       THEN UNCHANGED <<started, swStarts>>
       ELSE /\ started' = TRUE
            /\ swStarts' = StopWaiterStart(swStarts)
    /\ UNCHANGED <<kind, stopped, cfgRuns, count, runs, workload, obs, backend,
                   loaderStopped, base, helpers>>

\* Stop(): StopOnly cancels the lifecycle context; the jit spawner also
\* stops its machine loader.
Stop ==
    /\ started
    /\ stopped' = TRUE
    /\ loaderStopped' = (loaderStopped \/ kind = "jit")
    /\ UNCHANGED <<kind, started, cfgRuns, count, runs, workload, obs, backend,
                   swStarts, base, helpers>>

\* A hot reload of the configuration.
ReloadConfig(v) ==
    /\ cfgRuns # v
    /\ cfgRuns' = v
    /\ UNCHANGED <<kind, started, stopped, count, runs, workload, obs, backend,
                 life, base, helpers>>

LaunchAdmitsMutantGated == Room > 0

\* Launch has no admission test: it admits every call.
LaunchAdmits == TRUE

CountAfterLaunchMutantLate(c) == c

\* The counter after Launch's atomic.AddInt32(&v.count, 1)
CountAfterLaunch(c) == c + 1

CountAfterRunMutantKept(c) == c

\* The counter after the deferred atomic.AddInt32(&v.count, -1)
CountAfterRun(c) == c - 1

\* Launch(entry, moduleRoot)
Launch(item) ==
    /\ started
    /\ LaunchAdmits
    /\ count' = CountAfterLaunch(count)
    /\ runs' = Append(runs, LaunchThread(NewvalRun(item)))
    /\ UNCHANGED <<kind, started, stopped, cfgRuns, workload, obs, backend,
                 life, base, helpers>>

\* What the loader answers: the mock's answer, or a failure once the
\* lifecycle context is cancelled.
LoaderAnswers(mock) == IF stopped THEN {mock.load, FALSE} ELSE {mock.load}

SetRun(i, r) ==
    /\ runs' = [runs EXCEPT ![i] = r]
    /\ UNCHANGED <<kind, started, stopped, cfgRuns, count, workload, obs, backend,
                 life, base, helpers>>

executeContextMutantCaller(i) ==
    stopped \/ \E o \in DOMAIN obs : obs[o].run = i /\ obs[o].ctx = "cancelled"

\* The ctx execute is given and passes on to Step and prove: the context
\* of the background task, cancelled when the spawner is stopped.
executeContext(i) == stopped

TaskOfMutantSharedEntry(i) == [runs[i] EXCEPT !.item = runs[Len(runs)].item]

\* What the closure of task i captured: its own run, entry and moduleRoot.
TaskOf(i) == runs[i]

CloneBaseMutantNoClone(b, root) ==
    b \cup {OpOf("SetPreimageResolver", root), OpOf("SetGlobalState", root)}

\* basemachine.Clone(): the one call made on the loader's machine for a
\* module root.
CloneBase(b, root) == b \cup {OpOf("Clone", root)}

\* The task starts: execute up to the step loop (arbitrator), or the whole
\* of execute (jit).
ExecBegin(i) ==
    /\ runs[i].pc = "start"
    /\ \E loadOk \in LoaderAnswers(runs[i].item.mock) :
          \/ /\ kind = "arbitrator"
             /\ runs' = [runs EXCEPT ![i] = executeLoad(TaskOf(i), loadOk)]
             /\ base' = IF loadOk THEN CloneBase(base, runs[i].root) ELSE base
          \/ /\ kind = "jit"
             /\ \E cancelled \in {FALSE, executeContext(i)} :
                   runs' = [runs EXCEPT
                               ![i] = jitExecute(TaskOf(i), loadOk, cancelled)]
             /\ base' = base
    /\ UNCHANGED <<kind, started, stopped, cfgRuns, count, workload, obs,
                   backend, life, helpers>>

ExecStep(i) ==
    /\ runs[i].pc = "loop"
    /\ IsRunning(runs[i].mach)
    /\ SetRun(i, executeStep(runs[i], executeContext(i)))

ExecFinish(i) ==
    /\ runs[i].pc = "loop"
    /\ ~IsRunning(runs[i].mach)
    /\ SetRun(i, executeFinish(runs[i]))

\* The next statement of consumeResult.
ConsumeStep(i) ==
    /\ runs[i].pc = "consume"
    /\ LET r == Statement(consumeResult[runs[i].k], runs[i])
       IN  SetRun(i, IF runs[i].k = Len(consumeResult)
                     THEN [r EXCEPT !.pc = "defer", !.k = 0]
                     ELSE [r EXCEPT !.k = runs[i].k + 1])

\* defer atomic.AddInt32(&v.count, -1)
DeferStep(i) ==
    /\ runs[i].pc = "defer"
    /\ count' = CountAfterRun(count)
    /\ runs' = [runs EXCEPT ![i].pc = "done"]
    /\ UNCHANGED <<kind, started, stopped, cfgRuns, workload, obs, backend,
                 life, base, helpers>>

------------------------------------------------------------------------------
(* Observers: callers of Result() and WaitReady(ctx) *)

Observers == 1..NumObservers

Idle == [pc |-> "idle", call |-> "none", run |-> 0, ctx |-> "none",
         val |-> <<ZeroState, NoErr>>]

SetObs(o, rec) ==
    /\ obs' = [obs EXCEPT ![o] = rec]
    /\ UNCHANGED <<kind, started, stopped, cfgRuns, count, runs, workload, backend,
                 life, base, helpers>>

Free(o) == obs[o].pc \in {"idle", "returned"}

\* Result(): the Ready() test; a pending run answers ErrNotReady at once.
ResultCall(o, i) ==
    /\ Free(o)
    /\ IF Ready(runs[i])
       THEN SetObs(o, [pc |-> "checked", call |-> "Result", run |-> i,
                       ctx |-> "none", val |-> <<ZeroState, NoErr>>])
       ELSE SetObs(o, [pc |-> "returned", call |-> "Result", run |-> i,
                       ctx |-> "none", val |-> <<ZeroState, ErrNotReady>>])

\* Result(): return r.result, r.err
ResultRead(o) ==
    /\ obs[o].pc = "checked"
    /\ SetObs(o, [obs[o] EXCEPT !.pc = "returned",
                                !.val = ResultPair(runs[obs[o].run])])

\* WaitReady(ctx) is entered, with a context that is live or already
\* cancelled.
WaitReadyCall(o, i, ctx) ==
    /\ Free(o)
    /\ SetObs(o, [pc |-> "waiting", call |-> "WaitReady", run |-> i,
                  ctx |-> ctx, val |-> <<ZeroState, NoErr>>])

\* The caller's context is cancelled while it waits.
CancelCtx(o) ==
    /\ obs[o].pc = "waiting"
    /\ obs[o].ctx = "live"
    /\ SetObs(o, [obs[o] EXCEPT !.ctx = "cancelled"])

\* WaitReady's select fires one of its ready cases.
WaitReadyReturn(o) ==
    /\ obs[o].pc = "waiting"
    /\ \E e \in WaitReadyCases(runs[obs[o].run], obs[o].ctx) :
          SetObs(o, [obs[o] EXCEPT !.pc = "returned", !.ctx = "none",
                                   !.val = <<ZeroState, e>>])

------------------------------------------------------------------------------
(* CreateExecutionBackend *)

------------------------------------------------------------------------------
(* The preimage resolver *)

Hashes == 1..NumHashes
PreimageBytes == {"abc", "xyz"}
NoBytes == "nil"                   \* a nil []byte

\* entry.Preimages: a map from some of the hashes to bytes.
PreimageMaps == UNION {[D -> PreimageBytes] : D \in SUBSET Hashes}

resolverMutantFallback(Preimages, hash) ==
    IF hash \in DOMAIN Preimages THEN <<Preimages[hash], NoErr>>
    ELSE IF DOMAIN Preimages # {}
    THEN <<Preimages[CHOOSE h \in DOMAIN Preimages : TRUE], NoErr>>
    ELSE <<NoBytes, ErrPreimage>>

\* The resolver closure of loadEntryToMachine and of JitSpawner.execute.
resolver(Preimages, hash) ==
    IF hash \in DOMAIN Preimages THEN <<Preimages[hash], NoErr>>
    ELSE <<NoBytes, ErrPreimage>>

\* No resolver call yet, on an input with the given preimages.
NoLookupOn(Preimages) ==
    [called |-> FALSE, Preimages |-> Preimages, hash |-> 0,
     bytes |-> NoBytes, err |-> NoErr]

NoLookup == NoLookupOn(<<>>)

\* The machine asks the run's resolver for a hash.
Resolve(hash) ==
    /\ LET got == resolver(lookup.Preimages, hash)
       IN  lookup' = [lookup EXCEPT !.called = TRUE, !.hash = hash,
                                    !.bytes = got[1], !.err = got[2]]
    /\ UNCHANGED <<kind, started, stopped, cfgRuns, count, runs, workload, obs,
                   backend, life, base, export>>

------------------------------------------------------------------------------
(* WriteToFile *)

\* The inputs written to files: the batches, the delayed message and the
\* preimages in the order the iteration over the map yields them.
RECURSIVE SeqsUpTo(_, _)
SeqsUpTo(S, n) ==
    IF n = 0 THEN {<<>>}
    ELSE LET shorter == SeqsUpTo(S, n - 1)
         IN  shorter \cup {Append(q, x) : q \in shorter, x \in S}

ExportInputs ==
    [BatchInfo : {BatchInfoOf(n) : n \in 0..MaxBatch},
     HasDelayedMsg : BOOLEAN,
     DelayedMsgNr : {0, 7},
     Preimages : SeqsUpTo(PreimageBytes, MaxPreimages)]

StartState == [Batch |-> 5, PosInBatch |-> 10, BlockHash |-> "H"]

\* fmt.Sprintf("sequencer_%d.bin", n) and fmt.Sprintf("delayed_%d.bin", n)
FileName(prefix, n) == [prefix |-> prefix, nr |-> n, suffix |-> ".bin"]
ScriptFile == "run-prover.sh"
PreimagesFile == "preimages.bin"

\* One piece of the command line: a flag and its argument.
Flag(flag, arg) == [flag |-> flag, arg |-> arg]

\* One call of the os / file API: what it is, on which file, with which text.
IoOp(op, file, text) == [op |-> op, file |-> file, text |-> text]

libraries ==
    <<"soft-float.wasm", "wasi_stub.wasm", "go_stub.wasm", "host_io.wasm",
      "brotli.wasm">>

\* The state of a WriteToFile call: the calls that succeeded so far, the
\* number of calls made, which call fails (0: none) and the error returned.
NoExportOn(input, fail) ==
    [called |-> FALSE, input |-> input, fail |-> fail, ops |-> <<>>,
     n |-> 0, err |-> NoErr]

DoMutantIgnoreErr(st, op) ==
    IF st.n + 1 = st.fail THEN [st EXCEPT !.n = @ + 1]
    ELSE [st EXCEPT !.n = @ + 1, !.ops = Append(@, op)]

\* One call and its "if err != nil { return err }": after a failure nothing
\* more is done.
Do(st, op) ==
    IF st.err # NoErr THEN st
    ELSE IF st.n + 1 = st.fail THEN [st EXCEPT !.n = @ + 1, !.err = ErrIO]
    ELSE [st EXCEPT !.n = @ + 1, !.ops = Append(@, op)]

RECURSIVE DoAll(_, _)
DoAll(st, ops) ==
    IF ops = <<>> THEN st ELSE DoAll(Do(st, Head(ops)), Tail(ops))

\* MkdirAll, OpenFile and the first WriteString: the script up to the
\* prover command, with the "-m" override of MACHPATH.
WriteHeader ==
    <<IoOp("MkdirAll", "outDirPath", <<>>),
      IoOp("OpenFile", ScriptFile, <<>>),
      IoOp("WriteString", ScriptFile,
           <<Flag("MACHPATH override", "-m"), Flag("prover", "replay.wasm")>>)>>

WriteLibraries ==
    [k \in 1..Len(libraries) |->
        IoOp("WriteString", ScriptFile, <<Flag("-l", libraries[k])>>)]

WriteStartState ==
    <<IoOp("WriteString", ScriptFile,
           <<Flag("--inbox-position", StartState.Batch),
             Flag("--position-within-message", StartState.PosInBatch),
             Flag("--last-block-hash", StartState.BlockHash)>>)>>

RECURSIVE WriteBatches(_)
\* for _, msg := range input.BatchInfo
WriteBatches(batches) ==
    IF batches = <<>> THEN <<>>
    ELSE LET sequencerFileName == FileName("sequencer_", Head(batches))
         IN  <<IoOp("WriteFile", sequencerFileName, <<>>),
               IoOp("WriteString", ScriptFile,
                    <<Flag("--inbox", sequencerFileName)>>)>>
             \o WriteBatches(Tail(batches))

RECURSIVE WritePreimages(_)
\* for _, data := range input.Preimages: the length, then the data
WritePreimages(preimages) ==
    IF preimages = <<>> THEN <<>>
    ELSE <<IoOp("Write", PreimagesFile, <<"lenbytes", Head(preimages)>>),
           IoOp("Write", PreimagesFile, <<"data", Head(preimages)>>)>>
         \o WritePreimages(Tail(preimages))

\* if input.HasDelayedMsg
WriteDelayed(input) ==
    IF input.HasDelayedMsg
    THEN LET filename == FileName("delayed_", input.DelayedMsgNr)
         IN  <<IoOp("WriteString", ScriptFile,
                    <<Flag("--delayed-inbox-position", input.DelayedMsgNr)>>),
               IoOp("WriteFile", filename, <<>>),
               IoOp("WriteString", ScriptFile,
                    <<Flag("--delayed-inbox", filename)>>)>>
    ELSE <<>>

\* WriteToFile(input, expOut, moduleRoot): its calls in the order of the
\* code, each followed by the test of its error.
WriteToFile(st) ==
    LET input == st.input
    IN  DoAll([st EXCEPT !.called = TRUE],
              WriteHeader
              \o WriteLibraries
              \o WriteStartState
              \o WriteBatches(input.BatchInfo)
              \o <<IoOp("Create", PreimagesFile, <<>>)>>
              \o WritePreimages(input.Preimages)
              \o <<IoOp("WriteString", ScriptFile,
                        <<Flag("--preimages", PreimagesFile)>>)>>
              \o WriteDelayed(input)
              \o <<IoOp("WriteString", ScriptFile,
                        <<Flag("passthrough", "$@")>>)>>)

\* The number of calls WriteToFile makes on an input when none fails.
IoCalls(input) == WriteToFile(NoExportOn(input, 0)).n

NoExport ==
    NoExportOn([BatchInfo |-> <<>>, HasDelayedMsg |-> FALSE,
                DelayedMsgNr |-> 0, Preimages |-> <<>>], 0)

WriteToFileCall ==
    /\ kind = "arbitrator"
    /\ export' = WriteToFile(NoExportOn(export.input, export.fail))
    /\ UNCHANGED <<kind, started, stopped, cfgRuns, count, runs, workload, obs,
                   backend, life, base, lookup>>

NoCall == [called |-> FALSE, item |-> SuccessItem, mach |-> NoMach,
           err |-> NoErr, handed |-> FALSE]

\* The call's clone and result: handed is TRUE when the frozen clone is
\* passed to NewExecutionChallengeBackend.
createExecutionBackend(item) ==
    IF ~item.mock.load
    THEN [called |-> TRUE, item |-> item, mach |-> NoMach,
          err |-> ErrLoad, handed |-> FALSE]
    ELSE LET fed == loadEntryToMachine(item.entry, item.mock, Clone(item.mock))
         IN  IF fed.err # NoErr
             THEN [called |-> TRUE, item |-> item, mach |-> fed.mach,
                   err |-> fed.err, handed |-> FALSE]
             ELSE [called |-> TRUE, item |-> item,
                   mach |-> Freeze(fed.mach), err |-> NoErr, handed |-> TRUE]

CreateExecutionBackend(item) ==
    /\ kind = "arbitrator"
    /\ backend' = createExecutionBackend(item)
    /\ base' = IF item.mock.load THEN CloneBase(base, item.root) ELSE base
    /\ UNCHANGED <<kind, started, stopped, cfgRuns, count, runs, workload, obs,
                   life, helpers>>

------------------------------------------------------------------------------
(* Specifications *)

\* A spawner as its constructor leaves it.
InitSpawner(workloads, configs) ==
    /\ kind \in Kinds
    /\ started = FALSE
    /\ stopped = FALSE
    /\ cfgRuns \in configs
    /\ count = 0
    /\ runs = <<>>
    /\ workload \in workloads
    /\ obs = [o \in Observers |-> Idle]
    /\ backend = NoCall
    /\ swStarts = 0
    /\ loaderStopped = FALSE
    /\ base = {}

InitWith(workloads, configs) ==
    /\ InitSpawner(workloads, configs)
    /\ export = NoExport
    /\ lookup = NoLookup

Singles(items) == {{x} : x \in items}

RunIds == 1..Len(runs)

TaskStep(i) ==
    \/ ExecBegin(i)
    \/ ExecStep(i)
    \/ ExecFinish(i)
    \/ ConsumeStep(i)
    \/ DeferStep(i)

\* Capacity accounting: several runs in flight on a spawner whose
\* configuration is reloaded and which may be stopped.
Init == InitWith(MixedWorkloads, ConfigValues)

Next ==
    \/ ~started /\ Start
    \/ Stop
    \/ \E v \in ConfigValues : ReloadConfig(v)
    \/ \E item \in workload : Len(runs) < MaxRuns /\ Launch(item)
    \/ \E i \in RunIds : TaskStep(i)

Spec == Init /\ [][Next]_vars

\* The execution loop and the challenge backend on every input and mock.
InitExec == InitWith(Singles(AllItems), {0})

NextExec ==
    \/ ~started /\ Start
    \/ Stop
    \/ \E item \in workload : Len(runs) < ExecRuns /\ Launch(item)
    \/ \E i \in RunIds : TaskStep(i)
    \/ \E item \in workload : CreateExecutionBackend(item)

SpecExec == InitExec /\ [][NextExec]_vars

\* The future and the callers of Result().
InitFuture == InitWith(Singles(FutureItems), {0})

NextResult ==
    \/ ~started /\ Start
    \/ \E item \in workload : Len(runs) < ExecRuns /\ Launch(item)
    \/ \E i \in RunIds : TaskStep(i)
    \/ \E o \in Observers, i \in RunIds : ResultCall(o, i)
    \/ \E o \in Observers : ResultRead(o)

SpecResult == InitFuture /\ [][NextResult]_vars

\* The future and the callers of WaitReady().
NextWait ==
    \/ ~started /\ Start
    \/ \E item \in workload : Len(runs) < ExecRuns /\ Launch(item)
    \/ \E i \in RunIds : TaskStep(i)
    \/ \E o \in Observers, i \in RunIds, c \in {"live", "cancelled"} :
          WaitReadyCall(o, i, c)
    \/ \E o \in Observers : CancelCtx(o)
    \/ \E o \in Observers : WaitReadyReturn(o)

SpecWait == InitFuture /\ [][NextWait]_vars

\* The lifecycle: Start called again on a started spawner, and Stop.
NextLife ==
    \/ swStarts < MaxStarts /\ Start
    \/ Stop
    \/ \E item \in workload : Len(runs) < ExecRuns /\ Launch(item)
    \/ \E i \in RunIds : TaskStep(i)

SpecLife == InitFuture /\ [][NextLife]_vars

\* The lifecycle with the scheduler's fairness: a background task that can
\* take a step eventually takes it.
FairTask(i) == i \in RunIds /\ TaskStep(i)

SpecFair == SpecLife /\ \A i \in 1..ExecRuns : WF_vars(FairTask(i))

\* Stop and the callers' own cancellations side by side.
NextCancel ==
    \/ ~started /\ Start
    \/ Stop
    \/ \E item \in workload : Len(runs) < ExecRuns /\ Launch(item)
    \/ \E i \in RunIds : TaskStep(i)
    \/ \E o \in Observers, i \in RunIds : WaitReadyCall(o, i, "live")
    \/ \E o \in Observers : CancelCtx(o)

SpecCancel == InitFuture /\ [][NextCancel]_vars

\* The resolver of a run on every preimage map, asked for every hash.
InitResolve ==
    /\ InitSpawner(Singles({SuccessItem}), {0})
    /\ export = NoExport
    /\ lookup \in {NoLookupOn(P) : P \in PreimageMaps}

NextResolve == \E h \in Hashes : Resolve(h)

SpecResolve == InitResolve /\ [][NextResolve]_vars

\* WriteToFile on every input, with every one of its calls failing.
InitWrite ==
    /\ InitSpawner(Singles({SuccessItem}), {0})
    /\ lookup = NoLookup
    /\ export \in UNION {{NoExportOn(input, f) : f \in 0..IoCalls(input)} :
                          input \in ExportInputs}

NextWrite == WriteToFileCall

SpecWrite == InitWrite /\ [][NextWrite]_vars

------------------------------------------------------------------------------
(* Properties *)

\* execute has returned: the run's pair is with consumeResult or stored.
Returned(r) == r.pc \in {"consume", "defer", "done"}

\* The task has left consumeResult.
Resolved(r) == r.pc \in {"defer", "done"}

NumOps(log, op) == Cardinality({j \in 1..Len(log) : log[j].op = op})

GaveResult(o) == obs[o].pc = "returned" /\ obs[o].call = "Result"
GaveWait(o) == obs[o].pc = "returned" /\ obs[o].call = "WaitReady"
NotReadyPair == <<ZeroState, ErrNotReady>>

\* Observer o returns from a call in this step.
Returns(o) == obs[o].pc # "returned" /\ obs'[o].pc = "returned"

\* C1: a future is resolved at most once, by its own task, and never goes
\* back to Pending; once it is resolved its stored pair never changes, it
\* is the pair execute returned, and every Result() that finds it resolved
\* returns that pair.
C1_ResolvedOnce ==
    /\ [](\A i \in RunIds :
            /\ runs[i].signals <= 1
            /\ Ready(runs[i]) <=> runs[i].signals = 1
            /\ Resolved(runs[i]) => Ready(runs[i]) /\ runs[i].chanReady = "closed"
            /\ runs[i].pc \in {"start", "loop"} => ~Ready(runs[i]))
    /\ [](\A o \in Observers :
            GaveResult(o) /\ obs[o].val # NotReadyPair
                => obs[o].val = runs[obs[o].run].ret)
    /\ [][\A i \in RunIds :
            /\ Ready(runs[i]) =>
                 /\ Ready(runs'[i])
                 /\ ResultPair(runs'[i]) = ResultPair(runs[i])
                 /\ ResultPair(runs[i]) = runs[i].ret
            /\ runs[i].chanReady = "closed" => runs'[i].chanReady = "closed"
            /\ \A o \in Observers :
                 Returns(o) /\ obs'[o].call = "Result" /\ obs'[o].run = i
                 /\ Resolved(runs[i])
                     => obs'[o].val = runs[i].ret]_vars

C1_Witness ==
    \E i \in RunIds :
        /\ runs[i].pc = "done"
        /\ runs[i].ret[2] # NoErr
        /\ \A o \in Observers :
              GaveResult(o) /\ obs[o].run = i /\ obs[o].val = runs[i].ret

\* C2: Result() on a future that is not resolved returns the zero
\* checkpoint and ErrNotReady; whatever the interleaving with the producer,
\* Result() returns that pair or the complete final pair, and a future that
\* reads Ready holds both halves of the final pair.
C2_ResultAtomic ==
    /\ [](\A o \in Observers :
            GaveResult(o) =>
                \/ obs[o].val = NotReadyPair
                \/ obs[o].val = runs[obs[o].run].ret)
    /\ [](\A i \in RunIds :
            Ready(runs[i]) => ResultPair(runs[i]) = runs[i].ret)
    /\ [][\A o \in Observers :
            /\ obs[o].pc \in {"idle", "returned"}
            /\ obs'[o] # obs[o]
            /\ obs'[o].call = "Result"
            /\ ~Ready(runs[obs'[o].run])
            => obs'[o].pc = "returned" /\ obs'[o].val = NotReadyPair]_vars

\* One reader got ErrNotReady while the producer was between its writes and
\* another got the final pair of a failed run.
C2_Witness ==
    \E i \in RunIds, o1, o2 \in Observers :
        /\ GaveResult(o1) /\ obs[o1].run = i /\ obs[o1].val = NotReadyPair
        /\ GaveResult(o2) /\ obs[o2].run = i /\ obs[o2].val = runs[i].ret
        /\ runs[i].ret[2] # NoErr
        /\ runs[i].pc = "consume"

\* Runs whose deferred decrement has not run yet.
InFlight == Cardinality({i \in RunIds : runs[i].pc # "done"})

\* C3: the counter is the number of launched runs that have not completed,
\* so N launches raise it by N and it is back at its first value when all
\* have completed, on success and on every error path; Room() is the limit
\* (ConcurrentRuns, or the CPU count when that is 0) minus the runs in
\* flight.
C3_CounterBalanced ==
    /\ count = InFlight
    /\ Room = (IF cfgRuns = 0 THEN NumCPU ELSE cfgRuns) - InFlight
    /\ (\A i \in RunIds : runs[i].pc = "done") => count = 0

C3_Witness ==
    /\ Len(runs) >= 2
    /\ \A i \in RunIds : runs[i].pc = "done"
    /\ \E i \in RunIds : runs[i].ret[2] # NoErr
    /\ \E i \in RunIds : runs[i].ret[2] = NoErr
    /\ count = 0

\* Runs whose execute is still going on.
Executing == {i \in RunIds : runs[i].pc \in {"start", "loop"}}

\* C4: a started spawner accepts a Launch in every state, whatever Room()
\* is (MaxRuns only bounds the model); the call raises the counter by one
\* and leaves a Pending future whose execution has been started.
C4_LaunchNeverGated ==
    /\ [](started /\ Len(runs) < MaxRuns
            => ENABLED (\E item \in workload : Launch(item)))
    /\ [][Len(runs') # Len(runs) =>
            /\ Len(runs') = Len(runs) + 1
            /\ count' = count + 1
            /\ ~Ready(runs'[Len(runs')])
            /\ runs'[Len(runs')].chanReady = "open"
            /\ runs'[Len(runs')].pc = "start"]_vars

\* More executions are running than the configured limit allows.
C4_Witness ==
    /\ cfgRuns = 1
    /\ Room < 0
    /\ Cardinality(Executing) > cfgRuns


Steps(log) == NumOps(log, "Step")

\* (a) the machine stopped without fault: its checkpoint, nil error.
OutcomeHalted(r) ==
    /\ r.mach.status = "halted"
    /\ Steps(r.mach.log) = r.mach.steps
    /\ r.mach.steps = r.item.mock.len
    /\ NumOps(r.mach.log, "GetGlobalState") = 1
    /\ r.ret = <<r.item.mock.gs, NoErr>>

\* (b) the machine stopped and reports errored: machine-fault error.
OutcomeFaulted(r) ==
    /\ r.mach.status = "errored"
    /\ Steps(r.mach.log) = r.mach.steps
    /\ r.mach.steps = r.item.mock.len
    /\ NumOps(r.mach.log, "GetGlobalState") = 0
    /\ r.ret = <<ZeroState, ErrFaulted>>

\* (c) the last Step call failed: stepping error, and the only call after
\* that Step is the deferred Destroy.
OutcomeStepError(r) ==
    /\ r.mach.status = "running"
    /\ Steps(r.mach.log) = r.mach.steps + 1
    /\ NumOps(r.mach.log, "GetGlobalState") = 0
    /\ r.ret[1] = ZeroState
    /\ r.ret[2] \in {ErrStep, ErrStepCanceled}
    /\ Len(r.mach.log) >= 2
    /\ r.mach.log[Len(r.mach.log) - 1].op = "Step"

\* Every Step call follows an IsRunning() call that the machine answered
\* with true.
SteppedOnlyWhileRunning(r) ==
    \A j \in 1..Len(r.mach.log) :
        r.mach.log[j].op = "Step" =>
            /\ j > 1
            /\ r.mach.log[j - 1].op = "IsRunning"
            /\ Steps(SubSeq(r.mach.log, 1, j - 1)) < r.item.mock.len

OneOf(a, b, c) == (a /\ ~b /\ ~c) \/ (~a /\ b /\ ~c) \/ (~a /\ ~b /\ c)

\* C5: once the base machine is loaded and the input fed, execute ends in
\* exactly one of (a) final checkpoint, (b) machine fault, (c) stepping
\* error; while the spawner is not stopped the outcome is the one the
\* machine's behaviour calls for, a failing Step ends the loop at once, and
\* Step is only called on a machine that reports running.
C5_ThreeOutcomes ==
    kind = "arbitrator" =>
        \A i \in RunIds :
            LET r == runs[i]
            IN  /\ SteppedOnlyWhileRunning(r)
                /\ Returned(r) /\ r.mach.made /\ r.item.mock.failAt = 0 =>
                    /\ OneOf(OutcomeHalted(r), OutcomeFaulted(r),
                             OutcomeStepError(r))
                    /\ ~stopped =>
                        /\ r.item.mock.end = "halt" => OutcomeHalted(r)
                        /\ r.item.mock.end = "fault" => OutcomeFaulted(r)
                        /\ r.item.mock.end = "steperr" =>
                              /\ OutcomeStepError(r)
                              /\ Steps(r.mach.log) = r.item.mock.len
                              /\ r.ret[2] = ErrStep

\* A machine that fails its second Step call.
C5_Witness ==
    /\ kind = "arbitrator"
    /\ ~stopped
    /\ \E i \in RunIds :
          /\ Returned(runs[i])
          /\ OutcomeStepError(runs[i])
          /\ Steps(runs[i].mach.log) = 2

\* The delayed-message calls on one clone: none without HasDelayedMsg, at
\* most one, and one when the feed got that far.
DelayedFeedOk(item, m, fed) ==
    LET n == NumOps(m.log, "AddDelayedInboxMessage")
    IN  /\ ~item.entry.HasDelayedMsg => n = 0
        /\ n <= 1
        /\ /\ item.entry.HasDelayedMsg
           /\ fed
           /\ m.made
           /\ item.mock.failAt \in {0, FeedCalls(item.entry)}
           => n = 1

\* C6: with HasDelayedMsg false, neither execute nor
\* CreateExecutionBackend calls AddDelayedInboxMessage, whatever
\* DelayedMsgNr is; with HasDelayedMsg true it is called exactly once when
\* the earlier feed calls succeeded.
C6_DelayedOnlyIfFlagged ==
    kind = "arbitrator" =>
        /\ \A i \in RunIds :
              DelayedFeedOk(runs[i].item, runs[i].mach, runs[i].pc # "start")
        /\ DelayedFeedOk(backend.item, backend.mach, backend.called)

C6_Witness ==
    /\ kind = "arbitrator"
    /\ backend.called /\ backend.handed
    /\ ~backend.item.entry.HasDelayedMsg
    /\ backend.item.entry.DelayedMsgNr # 0
    /\ \E i \in RunIds :
          /\ runs[i].pc = "done"
          /\ runs[i].ret[2] = NoErr
          /\ NumOps(runs[i].mach.log, "SetGlobalState") = 1
          /\ NumOps(runs[i].mach.log, "AddDelayedInboxMessage") = 0

Destroys(m) == NumOps(m.log, "Destroy")

\* C7: execute destroys its clone exactly once on every exit path after the
\* clone is made, Destroy is the last call on it, and when loading the base
\* machine fails there is no clone and no call.
C7_CloneDestroyedOnce ==
    /\ [](kind = "arbitrator" =>
            \A i \in RunIds :
                LET r == runs[i]
                IN  /\ ~Returned(r) => Destroys(r.mach) = 0
                    /\ Returned(r) /\ r.mach.made =>
                          /\ Destroys(r.mach) = 1
                          /\ r.mach.log[Len(r.mach.log)].op = "Destroy"
                    /\ Returned(r) /\ ~r.mach.made =>
                          /\ r.mach.log = <<>>
                          /\ r.ret = <<ZeroState, ErrLoad>>
                    /\ Returned(r) /\ r.ret[2] # ErrLoad => r.mach.made)
    /\ [][\A i \in RunIds :
            Destroys(runs[i].mach) > 0 => runs'[i].mach = runs[i].mach]_vars

\* A run cancelled by Stop in the middle of its step loop.
C7_Witness ==
    /\ kind = "arbitrator"
    /\ stopped
    /\ \E i \in RunIds :
          /\ runs[i].pc = "done"
          /\ runs[i].ret[2] = ErrStepCanceled
          /\ runs[i].mach.steps >= 1
          /\ Destroys(runs[i].mach) = 1

\* C8: the clone CreateExecutionBackend makes is frozen and handed to the
\* challenge backend when feeding succeeds, and destroyed when feeding
\* fails.
C8_CloneFrozenOrDestroyed ==
    backend.called /\ backend.mach.made =>
        /\ backend.err = NoErr =>
              /\ backend.handed
              /\ backend.mach.status = "frozen"
              /\ Destroys(backend.mach) = 0
        /\ backend.err # NoErr =>
              /\ ~backend.handed
              /\ Destroys(backend.mach) = 1


\* Observer o returns from WaitReady in this step.
WaitReturns(o) == obs[o].pc = "waiting" /\ obs'[o].pc = "returned"

\* Observer o gave up on run i, which was still Pending.
GaveUp(o, i) ==
    /\ i \in RunIds
    /\ GaveWait(o)
    /\ obs[o].run = i
    /\ obs[o].val = <<ZeroState, ErrCanceled>>
    /\ ~Ready(runs[i])

\* C9: a WaitReady that returns while its future is Pending returns the
\* caller's cancellation error (its context is cancelled) and changes
\* nothing else: the future, its task, the counter and the other observers
\* are as before; the task of that future can still take its next step, and
\* when it has resolved the future the stored pair is the one execute
\* returned.
C9_CancelledWaitLeavesFuture ==
    /\ [][\A o \in Observers :
            WaitReturns(o) /\ ~Ready(runs[obs[o].run]) =>
                /\ obs[o].ctx = "cancelled"
                /\ obs'[o].val = <<ZeroState, ErrCanceled>>
                /\ runs' = runs
                /\ count' = count
                /\ <<started, stopped, backend>>' = <<started, stopped, backend>>
                /\ \A p \in Observers \ {o} : obs'[p] = obs[p]]_vars
    /\ [](\A o \in Observers, i \in RunIds :
            GaveUp(o, i) => ENABLED TaskStep(i))
    /\ [](\A i \in RunIds :
            Resolved(runs[i]) =>
                Ready(runs[i]) /\ ResultPair(runs[i]) = runs[i].ret)

\* One waiter has given up; another still waits on the same Pending future
\* and the execution is in its step loop.
C9_Witness ==
    \E i \in RunIds, o1, o2 \in Observers :
        /\ GaveUp(o1, i)
        /\ obs[o2].pc = "waiting" /\ obs[o2].run = i
        /\ runs[i].pc = "loop"
        /\ count = 1

\* C10: a WaitReady whose context is live returns only when the future is
\* resolved, and with the stored error; once the producer has resolved the
\* future, the select of every waiting observer has a ready case, however
\* many wait, and a return of one waiter leaves the future as it is for the
\* others.
C10_WaitReturnsIffResolved ==
    /\ [][\A o \in Observers :
            /\ WaitReturns(o) /\ obs[o].ctx = "live" =>
                  /\ Ready(runs[obs[o].run])
                  /\ runs[obs[o].run].chanReady = "closed"
                  /\ obs'[o].val = <<ZeroState, runs[obs[o].run].ret[2]>>
            /\ WaitReturns(o) => runs' = runs]_vars
    /\ [](\A o \in Observers :
            obs[o].pc = "waiting" /\ Resolved(runs[obs[o].run])
                => ENABLED WaitReadyReturn(o))

\* Every observer has returned from WaitReady on the same future with the
\* error its run stored.
C10_Witness ==
    \E i \in RunIds :
        /\ runs[i].ret[2] # NoErr
        /\ \A o \in Observers :
              GaveWait(o) /\ obs[o].run = i
              /\ obs[o].val = <<ZeroState, runs[i].ret[2]>>

\* C11: Start on a spawner that is already started is a no-op on both
\* backends: the StopWaiter is not started a second time, so the lifecycle
\* context of the first Start is kept and nothing else changes; Stop
\* cancels the lifecycle context and, on the jit backend, stops the loader.
C11_StartIdempotent ==
    /\ [][started => swStarts' = swStarts]_vars
    /\ [](stopped /\ kind = "jit" => loaderStopped)

\* C12: the resolver of a run, on both backends, answers a hash that is in
\* the input's Preimages with exactly the bytes stored under that hash and
\* a nil error, and a hash that is not in it with no bytes and the
\* "preimage not found" error; it never answers with another hash's bytes.
C12_ResolverExact ==
    lookup.called =>
        IF lookup.hash \in DOMAIN lookup.Preimages
        THEN /\ lookup.bytes = lookup.Preimages[lookup.hash]
             /\ lookup.err = NoErr
        ELSE /\ lookup.bytes = NoBytes
             /\ lookup.err = ErrPreimage

\* A hash that is absent is asked for while other hashes have bytes.
C12_Witness ==
    /\ lookup.called
    /\ lookup.hash \notin DOMAIN lookup.Preimages
    /\ DOMAIN lookup.Preimages # {}
    /\ lookup.err = ErrPreimage

RECURSIVE Script(_)
\* The text of run-prover.sh: what the WriteString calls wrote, in order.
Script(ops) ==
    IF ops = <<>> THEN <<>>
    ELSE (IF Head(ops).op = "WriteString" THEN Head(ops).text ELSE <<>>)
         \o Script(Tail(ops))

\* The flags whose order is fixed, as an input must have them.
OrderedFlags(input) ==
    <<Flag("MACHPATH override", "-m"),
      Flag("--inbox-position", StartState.Batch),
      Flag("--position-within-message", StartState.PosInBatch),
      Flag("--last-block-hash", StartState.BlockHash)>>
    \o [k \in 1..Len(input.BatchInfo) |->
           Flag("--inbox", FileName("sequencer_", input.BatchInfo[k]))]
    \o <<Flag("--preimages", "preimages.bin")>>
    \o (IF input.HasDelayedMsg
        THEN <<Flag("--delayed-inbox-position", input.DelayedMsgNr),
               Flag("--delayed-inbox",
                    FileName("delayed_", input.DelayedMsgNr))>>
        ELSE <<>>)
    \o <<Flag("passthrough", "$@")>>

\* The data files an input must have, in the order of the input.
DataFiles(input) ==
    [k \in 1..Len(input.BatchInfo) |->
        FileName("sequencer_", input.BatchInfo[k])]
    \o (IF input.HasDelayedMsg
        THEN <<FileName("delayed_", input.DelayedMsgNr)>> ELSE <<>>)

IsOrderedFlag(f) == f.flag \notin {"-l", "prover"}
IsWriteFile(op) == op.op = "WriteFile"

\* Every --inbox flag in the script names a file that was written before it.
InboxAfterFile(ops) ==
    \A k \in DOMAIN ops :
        (ops[k].op = "WriteString" /\ ops[k].text # <<>>
            /\ ops[k].text[1].flag = "--inbox")
        => \E j \in 1..(k - 1) :
              ops[j] = IoOp("WriteFile", ops[k].text[1].arg, <<>>)

\* C13: when every write succeeds, run-prover.sh has the flags in the fixed
\* order (MACHPATH override, --inbox-position, --position-within-message,
\* --last-block-hash, one --inbox per batch in input order, --preimages,
\* the two delayed flags only if HasDelayedMsg, "$@"), one sequencer file
\* per batch written before its --inbox flag, and a delayed file only if
\* HasDelayedMsg; when a call fails, WriteToFile returns the error at once:
\* exactly the calls before the failing one were made, none after it, and
\* nothing written before is removed.
C13_ScriptOrder ==
    export.called =>
        LET input == export.input
            ops == export.ops
            done == WriteToFile(NoExportOn(input, 0)).ops
        IN  /\ InboxAfterFile(ops)
            /\ \A k \in DOMAIN ops : ops[k].op \in
                  {"MkdirAll", "OpenFile", "Create", "Write", "WriteFile",
                   "WriteString"}
            /\ IF export.fail = 0
               THEN /\ export.err = NoErr
                    /\ SelectSeq(Script(ops), IsOrderedFlag)
                          = OrderedFlags(input)
                    /\ LET files == SelectSeq(ops, IsWriteFile)
                       IN  [k \in DOMAIN files |-> files[k].file]
                              = DataFiles(input)
               ELSE /\ export.err = ErrIO
                    /\ ops = SubSeq(done, 1, export.fail - 1)

\* The last write fails on an input with two batches and a delayed message:
\* every file and every flag but "$@" has been written.
C13_Witness ==
    /\ export.called
    /\ export.err = ErrIO
    /\ export.fail = IoCalls(export.input)
    /\ export.input.HasDelayedMsg
    /\ Len(export.input.BatchInfo) >= 2
    /\ Len(SelectSeq(export.ops, IsWriteFile)) = 3

\* The feed calls loadEntryToMachine makes on an input, in the order the
\* input fixes.
FeedOrder(entry) ==
    <<OpOf("SetPreimageResolver", 0), OpOf("SetGlobalState", 0)>>
    \o [k \in 1..Len(entry.BatchInfo) |->
           OpOf("AddSequencerInboxMessage", entry.BatchInfo[k])]
    \o (IF entry.HasDelayedMsg
        THEN <<OpOf("AddDelayedInboxMessage", entry.DelayedMsgNr)>>
        ELSE <<>>)

\* The error of the feed call at a position of the order.
FeedErrorAt(entry, f) ==
    IF f = 1 THEN ErrResolver
    ELSE IF f = 2 THEN ErrSetState
    ELSE IF f <= 2 + Len(entry.BatchInfo) THEN ErrSeqMsg
    ELSE ErrDelayedMsg

IsFeedOp(c) ==
    c.op \in {"SetPreimageResolver", "SetGlobalState",
              "AddSequencerInboxMessage", "AddDelayedInboxMessage"}

\* A clone that was fed: its feed calls are the order of its input, cut
\* after the first call that fails, they come before every other call, and
\* err is the error of the failing call.
FedInOrder(item, m, err) ==
    LET feed == SelectSeq(m.log, IsFeedOp)
        f == item.mock.failAt
    IN  /\ feed = SubSeq(m.log, 1, Len(feed))
        /\ IF f = 0
           THEN feed = FeedOrder(item.entry)
           ELSE /\ feed = SubSeq(FeedOrder(item.entry), 1, f)
                /\ Steps(m.log) = 0
                /\ err = FeedErrorAt(item.entry, f)

\* C14: loadEntryToMachine installs the resolver, sets the start checkpoint,
\* adds the batch messages in the order of entry.BatchInfo and then, only if
\* there is one, the delayed message; the first call that fails ends the
\* sequence: no later feed call and no Step is made, and its error is what
\* execute (or CreateExecutionBackend) returns.
C14_FeedInOrder ==
    kind = "arbitrator" =>
        /\ \A i \in RunIds :
              runs[i].mach.made =>
                  FedInOrder(runs[i].item, runs[i].mach,
                             IF runs[i].item.mock.failAt = 0
                             THEN NoErr ELSE runs[i].ret[2])
        /\ (backend.called /\ backend.mach.made) =>
              FedInOrder(backend.item, backend.mach, backend.err)

\* The first of two batch messages is refused on an input that also has a
\* delayed message: the run has returned that error.
C14_Witness ==
    /\ kind = "arbitrator"
    /\ \E i \in RunIds :
          /\ runs[i].pc = "done"
          /\ runs[i].item.mock.failAt = 3
          /\ Len(runs[i].item.entry.BatchInfo) = 2
          /\ runs[i].item.entry.HasDelayedMsg
          /\ runs[i].err = ErrSeqMsg
          /\ Len(SelectSeq(runs[i].mach.log, IsFeedOp)) = 3

\* The run was ended by its Step seeing the cancellation: the wrapped error
\* of Step with no checkpoint, and the clone destroyed right after that Step.
EndedByStop(r) ==
    /\ r.pc \in {"consume", "defer", "done"}
    /\ r.ret = <<ZeroState, ErrStepCanceled>>
    /\ Destroys(r.mach) = 1
    /\ Len(r.mach.log) >= 2
    /\ r.mach.log[Len(r.mach.log)].op = "Destroy"
    /\ r.mach.log[Len(r.mach.log) - 1].op = "Step"

\* C15: only Stop ends an execution early. Once the spawner is stopped, the
\* next Step of every execution whose machine is still running fails with
\* the cancellation: the run ends with the wrapped stepping error, its clone
\* destroyed; that error is what its future holds once resolved, and the
\* counter is lowered. While the spawner is not stopped no run ends that
\* way, whatever the callers of WaitReady cancel, and a caller's
\* cancellation changes no run.
C15_OnlyStopEndsEarly ==
    /\ [][\A i \in RunIds :
            /\ kind = "arbitrator"
            /\ stopped
            /\ runs[i].pc = "loop"
            /\ IsRunning(runs[i].mach)
            /\ runs'[i] # runs[i]
            => EndedByStop(runs'[i])]_vars
    /\ [](\A i \in RunIds :
            /\ runs[i].ret[2] \in {ErrStepCanceled, ErrCanceled} => stopped
            /\ (runs[i].pc = "done" /\ EndedByStop(runs[i]))
                => /\ ResultPair(runs[i]) = <<ZeroState, ErrStepCanceled>>
                   /\ Ready(runs[i])
                   /\ count = InFlight)
    /\ [][(\E o \in Observers : obs'[o] # obs[o]) => runs' = runs]_vars

\* A caller has cancelled its wait and the run went on; then Stop ended it.
C15_Witness ==
    /\ kind = "arbitrator"
    /\ stopped
    /\ \E o \in Observers : obs[o].ctx = "cancelled"
    /\ \E i \in RunIds : runs[i].pc = "done" /\ EndedByStop(runs[i])
    /\ count = 0

\* The calls that change a machine.
MutatingOps ==
    {"SetPreimageResolver", "SetGlobalState", "AddSequencerInboxMessage",
     "AddDelayedInboxMessage", "Step", "Destroy", "Freeze"}

\* A clone of the base machine of a root: the base was cloned, and the calls
\* of the invocation are in the clone's own log.
ClonedFrom(m, root) ==
    /\ OpOf("Clone", root) \in base
    /\ \E j \in DOMAIN m.log : m.log[j].op \in MutatingOps

LaunchedItem(r) == CHOOSE x \in workload : x.root = r.root

\* What the execution of an input gives on a spawner that is not stopped.
OwnOutcome(item) ==
    LET mock == item.mock
    IN  IF ~mock.load THEN <<ZeroState, ErrLoad>>
        ELSE IF kind = "jit" THEN Prove(mock, FALSE)
        ELSE IF mock.failAt # 0
        THEN <<ZeroState, FeedErrorAt(item.entry, mock.failAt)>>
        ELSE IF mock.end = "steperr" THEN <<ZeroState, ErrStep>>
        ELSE IF mock.end = "fault" THEN <<ZeroState, ErrFaulted>>
        ELSE <<mock.gs, NoErr>>

\* What Stop can make of it instead.
StoppedOutcomes ==
    {<<ZeroState, ErrLoad>>, <<ZeroState, ErrStepCanceled>>,
     <<ZeroState, ErrCanceled>>}

\* C17: runs launched side by side are independent: in every interleaving
\* each future is resolved with the outcome of the execution of its own
\* input and module root, never with that of another run, and on a spawner
\* that is not stopped the pair is fixed by the input alone, whatever the
\* order in which the runs start and finish.
C17_RunsIndependent ==
    \A i \in RunIds :
        LET r == runs[i]
            own == LaunchedItem(r)
        IN  /\ r.item = own
            /\ Returned(r) =>
                  /\ r.ret \in {OwnOutcome(own)} \cup StoppedOutcomes
                  /\ ~stopped => r.ret = OwnOutcome(own)
            /\ Resolved(r) => ResultPair(r) = r.ret

\* The run launched second, for the other input, is resolved with its own
\* error while the run launched first has not started.
C17_Witness ==
    /\ ~stopped
    /\ Len(runs) >= 2
    /\ runs[1].pc = "start"
    /\ runs[2].pc = "done"
    /\ runs[1].root # runs[2].root
    /\ ResultPair(runs[2]) = OwnOutcome(LaunchedItem(runs[2]))
    /\ ResultPair(runs[2]) # OwnOutcome(LaunchedItem(runs[1]))

\* C18: every Launch on a started spawner, stopped or not, returns a future
\* and starts an execution that ends: the future is eventually resolved,
\* exactly once, with the pair execute returned, and the counter is lowered
\* exactly once for it; no future stays Pending and the counter does not
\* stay raised.
C18_LaunchResolves ==
    /\ \A i \in 1..ExecRuns :
          (i \in RunIds) ~>
              (i \in RunIds /\ runs[i].pc = "done" /\ Ready(runs[i]))
    /\ [](\A i \in RunIds :
            /\ runs[i].signals <= 1
            /\ runs[i].pc = "done" =>
                  /\ runs[i].signals = 1
                  /\ ResultPair(runs[i]) = runs[i].ret)
    /\ [](count = InFlight)
    /\ [](started /\ Len(runs) < ExecRuns
            => ENABLED (\E item \in workload : Launch(item)))

\* On a stopped spawner a run whose loader refused the machine because of
\* the Stop is resolved with that error and no longer counted.
C18_Witness ==
    /\ stopped
    /\ count = 0
    /\ \E i \in RunIds :
          /\ runs[i].pc = "done"
          /\ Ready(runs[i])
          /\ runs[i].item.mock.load
          /\ runs[i].err = ErrLoad

\* A future that is not resolved yet: Ready() is false or the channel open.
Pending(r) == ~Ready(r) \/ r.chanReady = "open"

NumPending == Cardinality({i \in RunIds : Pending(runs[i])})

\* C19: on both backends the counter is never negative and never below the
\* number of Pending futures: it is raised when the future is created and
\* lowered only once the future is resolved, so Room() never counts the slot
\* of an unresolved run as free; a future can be Ready while its run is
\* still counted, never Pending while its run is no longer counted.
C19_CountCoversPending ==
    /\ count >= 0
    /\ count >= NumPending
    /\ Room <= (IF cfgRuns = 0 THEN NumCPU ELSE cfgRuns) - NumPending
    /\ \A i \in RunIds : runs[i].pc = "done" => ~Pending(runs[i])

\* One future is Pending and another is Ready while its run is still
\* counted.
C19_Witness ==
    /\ NumPending = 1
    /\ count = 2
    /\ \E i \in RunIds : runs[i].pc = "defer" /\ ~Pending(runs[i])

\* C20: a WaitReady that returns when its future is resolved returns the
\* stored error of the run, never the caller's context error, also when the
\* caller's context was cancelled before the call: the context error is
\* returned only while the future is Pending.
C20_CtxErrorOnlyIfPending ==
    [][\A o \in Observers :
          WaitReturns(o) /\ runs[obs[o].run].chanReady = "closed" =>
              obs'[o].val = <<ZeroState, runs[obs[o].run].err>>]_vars

\* Observer o returns from WaitReady with the error e in this step.
WaitReadyReturns(o, e) == WaitReadyReturn(o) /\ obs'[o].val = <<ZeroState, e>>

\* C20 as amended: WaitReady returns the caller's context error only if the
\* caller's context is cancelled when it returns, and the stored error only
\* if the future is resolved; on a resolved future it returns the stored
\* error whenever the caller's context is live, and when the context is
\* cancelled as well the select may take either case: both returns are
\* possible.
C20_EitherWhenBothReady ==
    /\ [][\A o \in Observers :
            WaitReturns(o) =>
                LET r == runs[obs[o].run]
                    e == obs'[o].val[2]
                IN  /\ obs'[o].val[1] = ZeroState
                    /\ e = ErrCanceled => obs[o].ctx = "cancelled"
                    /\ e # ErrCanceled => r.chanReady = "closed" /\ e = r.err
                    /\ (r.chanReady = "closed" /\ obs[o].ctx = "live")
                          => e = r.err]_vars
    /\ [](\A o \in Observers :
            /\ obs[o].pc = "waiting"
            /\ obs[o].ctx = "cancelled"
            /\ runs[obs[o].run].chanReady = "closed"
            => /\ ENABLED WaitReadyReturns(o, runs[obs[o].run].err)
               /\ ENABLED WaitReadyReturns(o, ErrCanceled))

\* One caller waits with a cancelled context on a future that is resolved,
\* and another has returned from the same future with its stored error.
C20_Witness ==
    \E i \in RunIds, o1, o2 \in Observers :
        /\ runs[i].pc = "done"
        /\ obs[o1].pc = "waiting" /\ obs[o1].run = i
        /\ obs[o1].ctx = "cancelled"
        /\ GaveWait(o2) /\ obs[o2].run = i
        /\ obs[o2].val = <<ZeroState, runs[i].err>>

====
